---------------------------- MODULE Spec2Model ----------------------------
(***************************************************************************)
(* A model of src/app.py: the broker client MT5TradingClient (connection   *)
(* state, quotes, positions, orders), its demo-data generators, the price  *)
(* series of the Live Charts section, the persistence client               *)
(* SupabaseHTTPClient and the runs of the page with their button handlers. *)
(*                                                                         *)
(* The MetaTrader5 terminal is the environment.  Each call of its API has  *)
(* an outcome the client does not control: a value, None, or an exception. *)
(* An operation takes the outcomes of the calls it may make as an input    *)
(* (env) and records the calls it really made, with their outcomes, in     *)
(* api_calls.                                                              *)
(*                                                                         *)
(* Python values of mixed type are tagged records: None is [none |-> TRUE],*)
(* an int is [int |-> i], a str is [str |-> s].  Decimal numbers are       *)
(* fixed-point (see Num below); floating point error is not modelled.      *)
(***************************************************************************)
EXTENDS Integers, Sequences, FiniteSets, TLC

VARIABLES
    MT5_AVAILABLE,   \* module flag set by the import block
    mt5_client,      \* st.session_state.mt5_client: "client", or "absent"
    connected,       \* MT5TradingClient.connected
    account_info,    \* MT5TradingClient.account_info
    demo_positions,  \* st.session_state.demo_positions, or Unset
    op,              \* the last operation called and its arguments
    ret,             \* what that call returned or raised
    api_calls,       \* the terminal API calls that call made, in order
    shown,           \* the st.error messages that call displayed
    supabase_client,    \* st.session_state.supabase_client: "client", or "none"
    supabase_connected, \* st.session_state.supabase_connected
    backend,            \* the rows the REST endpoint holds, by table
    http_calls,         \* the HTTP requests that call made, in order
    mt5_connected,      \* st.session_state.mt5_connected
    cached_client,      \* what st.cache_resource holds for init_supabase_http_connection
    run,                \* the run of the page script: where it is, what was clicked
    portfolio_value,    \* st.session_state.portfolio_value
    total_trades,       \* st.session_state.total_trades
    daily_pnl           \* st.session_state.daily_pnl

\* The persistence side and the page: what a method of the broker client
\* leaves alone.
page_vars == <<supabase_client, supabase_connected, backend, http_calls,
               mt5_connected, cached_client, run>>

\* The figures of the dashboard, which no part of the script assigns after
\* the session initialisation.
portfolio == <<portfolio_value, total_trades, daily_pnl>>

vars == <<MT5_AVAILABLE, mt5_client, connected, account_info, demo_positions,
          op, ret, api_calls, shown, supabase_client, supabase_connected,
          backend, http_calls, mt5_connected, cached_client, run, portfolio>>

---------------------------------------------------------------------------
(* Python values *)

None == [none |-> TRUE]
PyInt(i) == [int |-> i]
PyStr(s) == [str |-> s]
IsNone(x) == DOMAIN x = {"none"}

PyFloat(x) == [float |-> x]

\* bool(x) of None, an int, a float or a str: the test of `if login and password
\* and server` and of `if price:`
Truthy(x) ==
    IF "none" \in DOMAIN x THEN FALSE
    ELSE IF "int" \in DOMAIN x THEN x.int # 0
    ELSE IF "float" \in DOMAIN x THEN x.float # [h |-> 0, l |-> 0]
    ELSE x.str # ""

Returned(v) == [kind |-> "return", val |-> v]
Raised(e) == [kind |-> "raise", exc |-> e]

\* The attribute st.session_state.demo_positions does not exist yet.
Unset == [unset |-> TRUE]

\* An exception raised inside the terminal API (any subclass of Exception).
TerminalError == "RuntimeError('terminal')"


---------------------------------------------------------------------------
(* Decimal numbers.  A number is h * 10^-4 + l * 5 * 10^-9 with 0 <= l < LoMod: *)
(* every price of base_prices, every spread base * 0.0001 and half of it is     *)
(* exact, and no intermediate value leaves TLC's 32-bit integers.               *)

LoMod == 2 * 10000
\* round(x, 5) rounds to multiples of 10^-5
Tick5 == LoMod \div 10

Norm(h, l) == [h |-> h + (l \div LoMod), l |-> l % LoMod]
\* n * 10^-4
E4(n) == [h |-> n, l |-> 0]
Zero == E4(0)
Add(a, b) == Norm(a.h + b.h, a.l + b.l)
Sub(a, b) == Norm(a.h - b.h, a.l - b.l)
Leq(a, b) == a.h < b.h \/ (a.h = b.h /\ a.l <= b.l)
Max(a, b) == IF Leq(a, b) THEN b ELSE a

\* x * k / d, k and d whole numbers, d > 0 (what lies below one unit of l is dropped)
MulFrac(x, k, d) ==
    LET qh == x.h \div d
        rh == x.h % d
    IN Norm(qh * k + ((rh * k) \div d), (((rh * k) % d) * LoMod + x.l * k) \div d)

\* round(x, 5): to the nearest multiple of 10^-5, a tie to the even one
Round5(x) ==
    LET q == x.l \div Tick5
        r == x.l % Tick5
        up == IF 2 * r > Tick5 \/ (2 * r = Tick5 /\ q % 2 = 1) THEN 1 ELSE 0
    IN Norm(x.h, (q + up) * Tick5)

---------------------------------------------------------------------------
(* The terminal API as the client sees it *)

PyBool(b) == [bool |-> b]
Raise == [raise |-> TerminalError]
IsRaise(x) == "raise" \in DOMAIN x

\* One recorded call: the function, its argument, its outcome.
Call(fn, arg, out) == [fn |-> fn, arg |-> arg, out |-> out]

\* mt5.account_info(): the account of the terminal's current session.
Accounts == {[login |-> 1001], [login |-> 2002]}

\* mt5.last_error(): (code, description)
LastErrors == {PyStr("(-10003, 'IPC initialize failed')")}

\* Arguments a caller may pass as login, password and server.
Logins == {None, PyInt(0), PyInt(2002)}
Passwords == {None, PyStr(""), PyStr("secret")}
Servers == {None, PyStr("BrokerName-Demo")}

\* The outcomes of the calls connect() may make.
ConnectEnvs ==
    [initialize : {PyBool(TRUE), PyBool(FALSE), Raise},
     login : {PyBool(TRUE), PyBool(FALSE), Raise},
     account_info : Accounts \cup {None, Raise},
     last_error : LastErrors \cup {Raise}]

\* The outcome of a call that is not made changes nothing: one env stands for
\* all that differ only there (the one that answers Raise to the calls not made).
\* After an accepted login the terminal's session is on the account logged in.
Answers(env, calls) ==
    /\ \A fn \in DOMAIN env :
          (\A i \in 1..Len(calls) : calls[i].fn # fn) => env[fn] = Raise
    /\ \A i \in 1..Len(calls) :
          (calls[i].fn = "login" /\ calls[i].out = PyBool(TRUE)
              /\ env.account_info \in Accounts)
          => env.account_info.login = calls[i].arg.login.int

---------------------------------------------------------------------------
(* MT5TradingClient *)

\* What a method leaves behind: the client's fields, the returned or raised
\* value, the terminal calls made and the messages shown with st.error.
Outcome(c, a, r, calls, errs) ==
    [connected |-> c, account_info |-> a, demo_positions |-> demo_positions,
     ret |-> r, calls |-> calls, shown |-> errs]

\* except Exception as e: return False, f"MT5 connection error: {str(e)}"
ConnectionError(calls) ==
    Outcome(connected, account_info,
            Returned([ok |-> FALSE, msg |-> <<"MT5 connection error: ", TerminalError>>]),
            calls, <<>>)

\* A slip: the failure path resets the client.
FailedWithLastErrorResets(what, calls, env) ==
    LET calls2 == Append(calls, Call("last_error", None, env.last_error)) IN
    IF IsRaise(env.last_error) THEN ConnectionError(calls2)
    ELSE Outcome(FALSE, None,
                 Returned([ok |-> FALSE, msg |-> <<what, env.last_error.str>>]),
                 calls2, <<>>)

\* return False, f"MT5 ... failed: {mt5.last_error()}" (last_error may raise too)
FailedWithLastError(what, calls, env) ==
    LET calls2 == Append(calls, Call("last_error", None, env.last_error)) IN
    IF IsRaise(env.last_error) THEN ConnectionError(calls2)
    ELSE Outcome(connected, account_info,
                 Returned([ok |-> FALSE, msg |-> <<what, env.last_error.str>>]),
                 calls2, <<>>)

\* The tail of connect(): account_info(), then the two assignments.
ConnectAccount(calls, env) ==
    LET calls2 == Append(calls, Call("account_info", None, env.account_info)) IN
    IF IsRaise(env.account_info) THEN ConnectionError(calls2)
    ELSE IF IsNone(env.account_info) THEN
        Outcome(connected, account_info,
                Returned([ok |-> FALSE, msg |-> <<"Failed to get account info">>]),
                calls2, <<>>)
    ELSE
        Outcome(TRUE, env.account_info,
                Returned([ok |-> TRUE,
                          msg |-> <<"Connected to MT5! Account: ",
                                    ToString(env.account_info.login)>>]),
                calls2, <<>>)

\* if login and password and server: if not mt5.login(...): return False, ...
ConnectLogin(login, password, server, calls, env) ==
    IF Truthy(login) /\ Truthy(password) /\ Truthy(server) THEN
        LET calls2 == Append(calls,
                Call("login", [login |-> login, password |-> password, server |-> server],
                     env.login)) IN
        IF IsRaise(env.login) THEN ConnectionError(calls2)
        ELSE IF ~env.login.bool THEN FailedWithLastError("MT5 login failed: ", calls2, env)
        ELSE ConnectAccount(calls2, env)
    ELSE ConnectAccount(calls, env)

connect(login, password, server, env) ==
    IF ~MT5_AVAILABLE THEN
        Outcome(connected, account_info,
                Returned([ok |-> FALSE, msg |-> <<"MT5 package not available">>]),
                <<>>, <<>>)
    ELSE
        LET calls == <<Call("initialize", None, env.initialize)>> IN
        IF IsRaise(env.initialize) THEN ConnectionError(calls)
        ELSE IF ~env.initialize.bool THEN
            FailedWithLastError("MT5 initialize failed: ", calls, env)
        ELSE ConnectLogin(login, password, server, calls, env)

\* mt5.shutdown() is not inside a try: when it raises, the exception leaves
\* disconnect() before `self.connected = False`.
disconnect(shutdown) ==
    IF MT5_AVAILABLE THEN
        LET calls == <<Call("shutdown", None, shutdown)>> IN
        IF IsRaise(shutdown) THEN
            Outcome(connected, account_info, Raised(TerminalError), calls, <<>>)
        ELSE Outcome(FALSE, account_info, Returned(None), calls, <<>>)
    ELSE Outcome(FALSE, account_info, Returned(None), <<>>, <<>>)

---------------------------------------------------------------------------
(* Demo quotes *)

\* base_prices.get(symbol, 100.0)
base_prices(symbol) ==
    CASE symbol = "EURUSD" -> E4(10950)
      [] symbol = "GBPUSD" -> E4(12650)
      [] symbol = "USDJPY" -> E4(1485000)
      [] symbol = "AUDUSD" -> E4(6750)
      [] symbol = "USDCAD" -> E4(13450)
      [] symbol = "BTCUSD" -> E4(650000000)
      [] symbol = "ETHUSD" -> E4(32000000)
      [] symbol = "XAUUSD" -> E4(20500000)
      [] OTHER -> E4(1000000)

\* random.uniform(-1, 1) is k / UDen for a k in -UDen..UDen.
UDen == 1
\* random.randint(100, 1000) and int(time.time())
RandintSamples == {550}
ClockSamples == {1700000000}
Draws == [u : -UDen..UDen, volume : RandintSamples, time : ClockSamples]

\* A slip: the spread is subtracted.
DemoQuoteSpreadBelow(symbol, d) ==
    LET base == base_prices(symbol)
        variation == MulFrac(MulFrac(base, 1, 1000), d.u, UDen)
        bid == Add(base, variation)
        ask == Sub(bid, MulFrac(base, 1, 10000))
    IN [bid |-> Round5(bid),
        ask |-> Round5(ask),
        last |-> Round5(Add(bid, MulFrac(Sub(ask, bid), 1, 2))),
        volume |-> d.volume,
        time |-> d.time]

\* The body of the loop of _get_demo_prices, with its three random draws in d.
DemoQuote(symbol, d) ==
    LET base == base_prices(symbol)
        variation == MulFrac(MulFrac(base, 1, 1000), d.u, UDen)
        bid == Add(base, variation)
        ask == Add(bid, MulFrac(base, 1, 10000))
    IN [bid |-> Round5(bid),
        ask |-> Round5(ask),
        last |-> Round5(Add(bid, MulFrac(Sub(ask, bid), 1, 2))),
        volume |-> d.volume,
        time |-> d.time]

\* The keys of a dict filled in a loop over symbols: the symbols at the places
\* of `at`; a symbol met twice keeps what its last place wrote.
LastPlace(symbols, at, symbol) ==
    CHOOSE i \in at : symbols[i] = symbol /\ \A j \in at : symbols[j] = symbol => j <= i

get_demo_prices(symbols, draws) ==
    LET at == 1..Len(symbols) IN
    [symbol \in {symbols[i] : i \in at} |->
        DemoQuote(symbol, draws[LastPlace(symbols, at, symbol)])]

---------------------------------------------------------------------------
(* get_live_prices *)

\* mt5.symbol_info_tick(symbol): a tick, None, or an exception.
\* The first is a tick of a symbol with no last deal price (last = 0.0).
TickSamples ==
    {[bid |-> E4(649900000), ask |-> E4(649950000), last |-> Zero, volume |-> 0,
      time |-> 1700000000],
     [bid |-> E4(649900000), ask |-> E4(649950000), last |-> E4(649905000), volume |-> 3,
      time |-> 1700000000]}
TickOutcomes == TickSamples \cup {None, Raise}

\* The places the loop reaches: up to and including the first tick query that raises.
Reached(ticks) ==
    {i \in 1..Len(ticks) : \A j \in 1..(i - 1) : ~IsRaise(ticks[j])}

TickCalls(symbols, ticks) ==
    [i \in 1..Cardinality(Reached(ticks)) |->
        Call("symbol_info_tick", PyStr(symbols[i]), ticks[i])]

\* The prices dict filled from the ticks at the places of `at`.
TickPrices(symbols, ticks, at) ==
    [symbol \in {symbols[i] : i \in at} |->
        LET tick == ticks[LastPlace(symbols, at, symbol)] IN
        [bid |-> tick.bid, ask |-> tick.ask, last |-> tick.last,
         volume |-> tick.volume, time |-> tick.time]]

\* A slip: the handler returns the prices gathered before the exception.
tick_failure_keeps_prices(symbols, ticks, draws) ==
    Outcome(connected, account_info,
            Returned(TickPrices(symbols, ticks,
                                {i \in Reached(ticks) : ticks[i] \in TickSamples})),
            TickCalls(symbols, ticks),
            <<"Error getting live prices: " \o TerminalError>>)

\* except Exception as e: st.error(...); return self._get_demo_prices(symbols)
tick_failure(symbols, ticks, draws) ==
    Outcome(connected, account_info, Returned(get_demo_prices(symbols, draws)),
            TickCalls(symbols, ticks),
            <<"Error getting live prices: " \o TerminalError>>)

\* A slip: a symbol whose tick is missing gets its demo quote.
try_live_prices_fills_missing(symbols, ticks, draws) ==
    IF \E i \in 1..Len(ticks) : IsRaise(ticks[i]) THEN tick_failure(symbols, ticks, draws)
    ELSE
        Outcome(connected, account_info,
                Returned(TickPrices(symbols, ticks,
                                    {i \in 1..Len(symbols) : ~IsNone(ticks[i])})
                         @@ get_demo_prices(symbols, draws)),
                TickCalls(symbols, ticks), <<>>)

\* The try block of get_live_prices.
try_live_prices(symbols, ticks, draws) ==
    IF \E i \in 1..Len(ticks) : IsRaise(ticks[i]) THEN tick_failure(symbols, ticks, draws)
    ELSE
        Outcome(connected, account_info,
                Returned(TickPrices(symbols, ticks,
                                    {i \in 1..Len(symbols) : ~IsNone(ticks[i])})),
                TickCalls(symbols, ticks), <<>>)

get_live_prices(symbols, ticks, draws) ==
    IF ~connected \/ ~MT5_AVAILABLE THEN
        Outcome(connected, account_info, Returned(get_demo_prices(symbols, draws)),
                <<>>, <<>>)
    ELSE try_live_prices(symbols, ticks, draws)

---------------------------------------------------------------------------
(* place_order *)

\* str(volume) of a float given in hundredths: 1 -> "0.01", 10 -> "0.1", 100 -> "1.0"
StrFloat(v) ==
    LET frac == v % 100 IN
    ToString(v \div 100) \o "." \o
        (IF frac % 10 = 0 THEN ToString(frac \div 10)
         ELSE IF frac < 10 THEN "0" \o ToString(frac)
         ELSE ToString(frac))

\* order_type.upper()
Upper(order_type) ==
    CASE order_type = "buy" -> "BUY"
      [] order_type = "sell" -> "SELL"
      [] OTHER -> order_type

\* mt5.TRADE_RETCODE_DONE, the return code of an executed request
TRADE_RETCODE_DONE == 10009

\* mt5.order_send(request): a result, None, or an exception.
OrderResults ==
    {[retcode |-> 10009, comment |-> "Request executed", order |-> 7001],
     [retcode |-> 10006, comment |-> "Request rejected", order |-> 0],
     [retcode |-> 10008, comment |-> "Order placed", order |-> 7002]}
OrderOutcomes == OrderResults \cup {None, Raise}

\* The request dict: the seven fixed keys, then price, sl and tp when truthy.
OrderRequest(symbol, order_type, volume, price, sl, tp) ==
    [action |-> PyStr("TRADE_ACTION_DEAL"),
     symbol |-> PyStr(symbol),
     volume |-> [hundredths |-> volume],
     type |-> PyStr(IF Upper(order_type) = "BUY" THEN "ORDER_TYPE_BUY" ELSE "ORDER_TYPE_SELL"),
     deviation |-> PyInt(20),
     magic |-> PyInt(234000),
     comment |-> PyStr("AutoTrader Pro")]
    @@ (IF Truthy(price) THEN [price |-> price] ELSE <<>>)
    @@ (IF Truthy(sl) THEN [sl |-> sl] ELSE <<>>)
    @@ (IF Truthy(tp) THEN [tp |-> tp] ELSE <<>>)

\* A slip: the message reports the volume of the 0.01 test order.
demo_order_fixed_volume(symbol, order_type, volume) ==
    Outcome(connected, account_info,
            Returned([ok |-> TRUE,
                      msg |-> <<"DEMO: ", order_type, " order for ", StrFloat(1),
                                " ", symbol, " placed">>]),
            <<>>, <<>>)

\* return True, f"DEMO: {order_type} order for {volume} {symbol} placed"
demo_order(symbol, order_type, volume) ==
    Outcome(connected, account_info,
            Returned([ok |-> TRUE,
                      msg |-> <<"DEMO: ", order_type, " order for ", StrFloat(volume),
                                " ", symbol, " placed">>]),
            <<>>, <<>>)

place_order(symbol, order_type, volume, price, sl, tp, sent) ==
    IF ~connected \/ ~MT5_AVAILABLE THEN demo_order(symbol, order_type, volume)
    ELSE
        LET calls == <<Call("order_send",
                            OrderRequest(symbol, order_type, volume, price, sl, tp), sent)>>
        IN
        IF IsRaise(sent) THEN
            Outcome(connected, account_info,
                    Returned([ok |-> FALSE, msg |-> <<"Order error: ", TerminalError>>]),
                    calls, <<>>)
        ELSE IF IsNone(sent) THEN
            \* result.retcode of None raises AttributeError, caught by the same except
            Outcome(connected, account_info,
                    Returned([ok |-> FALSE,
                              msg |-> <<"Order error: ",
                                        "'NoneType' object has no attribute 'retcode'">>]),
                    calls, <<>>)
        ELSE IF sent.retcode # TRADE_RETCODE_DONE THEN
            Outcome(connected, account_info,
                    Returned([ok |-> FALSE, msg |-> <<"Order failed: ", sent.comment>>]),
                    calls, <<>>)
        ELSE
            Outcome(connected, account_info,
                    Returned([ok |-> TRUE,
                              msg |-> <<"Order placed successfully! Ticket: ",
                                        ToString(sent.order)>>]),
                    calls, <<>>)

---------------------------------------------------------------------------
(* get_positions *)

\* A Python list: its items and the identity of the list object.  A list made
\* for one call and not kept anywhere has ref 0.
List(ref, items) == [ref |-> ref, items |-> items]

\* The fixture of _get_demo_positions (volume in hundredths).
DemoPosition ==
    [ticket |-> 12345, symbol |-> "EURUSD", type |-> "BUY", volume |-> 10,
     price_open |-> E4(10945), price_current |-> E4(10952), profit |-> E4(70000),
     comment |-> "Demo position"]

\* A slip: a new list is made on every call.
get_demo_positions_regenerated ==
    List(IF demo_positions = Unset THEN 1 ELSE demo_positions.ref + 1, <<DemoPosition>>)

\* if not hasattr(st.session_state, 'demo_positions'): a new list is stored;
\* the stored list is returned.
get_demo_positions ==
    IF demo_positions = Unset THEN List(1, <<DemoPosition>>) ELSE demo_positions

\* mt5.positions_get(): a tuple of positions, None, or an exception.
LivePositions ==
    {[ticket |-> 501, symbol |-> "EURUSD", type |-> 0, volume |-> 10,
      price_open |-> E4(10945), price_current |-> E4(10952), profit |-> E4(70000),
      comment |-> ""],
     [ticket |-> 502, symbol |-> "GBPUSD", type |-> 1, volume |-> 5,
      price_open |-> E4(12650), price_current |-> E4(12635), profit |-> E4(75000),
      comment |-> "AutoTrader Pro"]}
MaxPositions == 2
PositionsOutcomes ==
    {[tuple |-> t] : t \in UNION {[1..n -> LivePositions] : n \in 0..MaxPositions}}
        \cup {None, Raise}

\* The dict get_positions builds from one position of the terminal.
PositionDict(pos) ==
    [ticket |-> pos.ticket, symbol |-> pos.symbol,
     type |-> IF pos.type = 0 THEN "BUY" ELSE "SELL",
     volume |-> pos.volume, price_open |-> pos.price_open,
     price_current |-> pos.price_current, profit |-> pos.profit,
     comment |-> pos.comment]

\* The try block of get_positions.
try_positions(positions) ==
    LET calls == <<Call("positions_get", None, positions)>> IN
    IF IsRaise(positions) THEN
        Outcome(connected, account_info, Returned(List(0, <<>>)), calls,
                <<"Error getting positions: " \o TerminalError>>)
    ELSE IF IsNone(positions) THEN
        Outcome(connected, account_info, Returned(List(0, <<>>)), calls, <<>>)
    ELSE
        Outcome(connected, account_info,
                Returned(List(0, [i \in 1..Len(positions.tuple) |->
                                     PositionDict(positions.tuple[i])])),
                calls, <<>>)

\* A slip: the terminal is asked whatever the connection state.
get_positions_unguarded(positions) == try_positions(positions)

get_positions(positions) ==
    IF ~connected \/ ~MT5_AVAILABLE THEN
        LET stored == get_demo_positions IN
        [Outcome(connected, account_info, Returned(stored), <<>>, <<>>)
            EXCEPT !.demo_positions = stored]
    ELSE try_positions(positions)

---------------------------------------------------------------------------
(* The Live MT5 Positions table *)

\* n / d rounded to the nearest integer, halves to the even one (d > 0).
RoundDiv(n, d) ==
    LET q == n \div d
        r == n % d
    IN IF 2 * r > d \/ (2 * r = d /\ q % 2 = 1) THEN q + 1 ELSE q

\* ((Current Price - Entry Price) / Entry Price * 100).round(2), in hundredths
\* of a percent, for prices of whole 1e-4 units and an entry price above zero.
PnlPercent(entry_price, current_price) ==
    RoundDiv(Sub(current_price, entry_price).h * 10000, entry_price.h)

\* live_df: the columns the table shows, with the added 'PnL %'.
live_df(live_positions) ==
    [i \in 1..Len(live_positions) |->
        [Symbol |-> live_positions[i].symbol,
         Side |-> live_positions[i].type,
         Size |-> live_positions[i].volume,
         EntryPrice |-> live_positions[i].price_open,
         CurrentPrice |-> live_positions[i].price_current,
         PnL |-> live_positions[i].profit,
         PnLPercent |-> PnlPercent(live_positions[i].price_open,
                                   live_positions[i].price_current)]]

---------------------------------------------------------------------------
(* The price series of the Live Charts section *)

\* current_price = 50000  # Default
DefaultPrice == E4(500000000)

\* np.random.randn(1) * 100, in dollars.  np.random.seed(42) makes the first
\* draw 0.4967 (49.6714 dollars); the later ones are standard normal draws,
\* here three standard deviations either way.
NoiseSamples == {E4(-3000000), E4(496714), E4(3000000)}
\* The number of hourly dates of the chart.
MaxPoints == 2

\* current_price, from the result of get_live_prices(['BTCUSD']) when it was asked.
current_price(asked, live_prices) ==
    IF asked /\ "BTCUSD" \in DOMAIN live_prices THEN live_prices["BTCUSD"].last
    ELSE DefaultPrice

\* The loop over dates: price = base_price + noise, kept at or above base_price * 0.8.
price_data(base_price, noise) ==
    [i \in 1..Len(noise) |->
        [timestamp |-> i,
         price |-> Max(Add(base_price, noise[i]), MulFrac(base_price, 4, 5)),
         volume |-> 550]]

\* The section as a whole: o is the outcome of its get_live_prices call, made
\* when the client exists and BTCUSD is among live_data_symbols.
chart_data(asked, o, noise) ==
    LET base_price == current_price(asked, o.ret.val) IN
    [o EXCEPT !.ret = Returned([base_price |-> base_price,
                                df |-> price_data(base_price, noise)])]

---------------------------------------------------------------------------
(* SupabaseHTTPClient *)

\* The REST endpoint is the environment.  It is a double that stores the rows
\* it accepts: a POST to a table it has appends the row and answers 201 (or
\* 200) with the stored row, a GET answers 200 with the first `limit` rows, a
\* table it does not have answers 404.  Any request may instead get a server
\* error, or no answer at all (requests raises a RequestException).
Tables == {"trades", "portfolio_history"}
MissingTables == {"test_table"}
MaxRows == 2

\* json=data and response.json(): the body on the wire is the JSON text.
JsonDumps(data) == [json_text |-> data]
JsonLoads(text) == text.json_text

\* requests.exceptions.RequestException
RequestError == "ConnectionError('unreachable')"
RaiseRequest == [raise |-> RequestError]

Get(path) == [method |-> "GET", path |-> path]

\* A slip: the size is not sent.
PostSizeDropped(path, data) ==
    [method |-> "POST", path |-> path, body |-> JsonDumps([data EXCEPT !.size = 0])]

Post(path, data) == [method |-> "POST", path |-> path, body |-> JsonDumps(data)]
Response(status, text) == [status_code |-> status, text |-> text]

AcceptStatuses == {200, 201}
Fates == {"answered", "server error", "unreachable"}

\* The rows of a table, first to last, at most limit of them.
FirstRows(rows, limit) == SubSeq(rows, 1, IF limit < Len(rows) THEN limit ELSE Len(rows))

\* The endpoint's answer to one request and the rows it holds afterwards.
Send(request, fate, status) ==
    IF fate = "unreachable" THEN [out |-> RaiseRequest, backend |-> backend]
    ELSE IF fate = "server error" THEN
        [out |-> Response(500, "Internal Server Error"), backend |-> backend]
    ELSE IF request.path = [root |-> TRUE] THEN
        [out |-> Response(200, JsonDumps(<<>>)), backend |-> backend]
    ELSE IF request.path.table \notin DOMAIN backend THEN
        [out |-> Response(404, "relation does not exist"), backend |-> backend]
    ELSE IF request.method = "POST" THEN
        LET rows == backend[request.path.table]
            row == [id |-> Len(rows) + 1] @@ JsonLoads(request.body)
        IN [out |-> Response(status, JsonDumps(<<row>>)),
            backend |-> [backend EXCEPT ![request.path.table] = Append(rows, row)]]
    ELSE
        [out |-> Response(200, JsonDumps(FirstRows(backend[request.path.table],
                                                   request.path.limit))),
         backend |-> backend]

\* What a method of the persistence client leaves behind: the returned value,
\* the requests made with their answers, and the rows the endpoint holds.
HttpOutcome(r, e, request) ==
    [ret |-> Returned(r), requests |-> <<[request |-> request, out |-> e.out]>>,
     backend |-> e.backend]

test_connection(fate) ==
    LET request == Get([root |-> TRUE])
        e == Send(request, fate, 200)
    IN
    IF IsRaise(e.out) THEN
        HttpOutcome([ok |-> FALSE, msg |-> <<"Connection error: ", RequestError>>],
                    e, request)
    ELSE IF e.out.status_code = 200 THEN
        HttpOutcome([ok |-> TRUE, msg |-> <<"Connection successful!">>], e, request)
    ELSE
        HttpOutcome([ok |-> FALSE,
                     msg |-> <<"Connection failed: HTTP ", ToString(e.out.status_code)>>],
                    e, request)

\* A slip: 200 is the only status taken for success.
insert_succeeded_on_200_only(status_code) == status_code = 200

\* if response.status_code in [200, 201]
insert_succeeded(status_code) == status_code \in {200, 201}

\* A slip: a refused insert is sent once more.
insert_data_retried(table, data, fate, status) ==
    LET request == Post([table |-> table], data)
        e == Send(request, fate, status)
        sent == [request |-> request, out |-> e.out]
    IN
    IF IsRaise(e.out) THEN
        HttpOutcome([ok |-> FALSE, msg |-> <<"Insert error: ", RequestError>>], e, request)
    ELSE IF insert_succeeded(e.out.status_code) THEN
        HttpOutcome([ok |-> TRUE, msg |-> <<"Data inserted successfully!">>], e, request)
    ELSE
        [ret |-> Returned([ok |-> FALSE, msg |-> <<"Insert failed: ", e.out.text>>]),
         requests |-> <<sent, sent>>, backend |-> e.backend]

insert_data(table, data, fate, status) ==
    LET request == Post([table |-> table], data)
        e == Send(request, fate, status)
    IN
    IF IsRaise(e.out) THEN
        HttpOutcome([ok |-> FALSE, msg |-> <<"Insert error: ", RequestError>>], e, request)
    ELSE IF insert_succeeded(e.out.status_code) THEN
        HttpOutcome([ok |-> TRUE, msg |-> <<"Data inserted successfully!">>], e, request)
    ELSE
        HttpOutcome([ok |-> FALSE, msg |-> <<"Insert failed: ", e.out.text>>], e, request)

\* A slip: a failed read looks like an empty table.
select_failed_as_empty == [ok |-> TRUE, rows |-> <<>>]

\* return False, []
select_failed == [ok |-> FALSE, rows |-> <<>>]

\* A slip: any answer of the endpoint is taken for a result.
select_data_any_status(table, limit, fate) ==
    LET request == Get([table |-> table, limit |-> limit])
        e == Send(request, fate, 200)
    IN
    IF IsRaise(e.out) THEN HttpOutcome(select_failed, e, request)
    ELSE IF e.out.status_code = 200 THEN
        HttpOutcome([ok |-> TRUE, rows |-> JsonLoads(e.out.text)], e, request)
    ELSE HttpOutcome([ok |-> TRUE, rows |-> <<>>], e, request)

select_data(table, limit, fate) ==
    LET request == Get([table |-> table, limit |-> limit])
        e == Send(request, fate, 200)
    IN
    IF IsRaise(e.out) THEN HttpOutcome(select_failed, e, request)
    ELSE IF e.out.status_code = 200 THEN
        HttpOutcome([ok |-> TRUE, rows |-> JsonLoads(e.out.text)], e, request)
    ELSE HttpOutcome(select_failed, e, request)

---------------------------------------------------------------------------
(* The session *)

\* No run of the page script is under way.
NoRun == [pc |-> "none"]

\* A method of the persistence client ran.
ApplyHttp(o, what) ==
    /\ ret' = o.ret
    /\ http_calls' = o.requests
    /\ backend' = o.backend
    /\ op' = what
    /\ api_calls' = <<>>
    /\ shown' = <<>>
    /\ UNCHANGED <<portfolio, MT5_AVAILABLE, mt5_client,
                   connected, account_info, demo_positions,
                   mt5_connected, cached_client, run>>

\* client = SupabaseHTTPClient(url, key): url.rstrip('/') raises AttributeError
\* when url is not a str.
Urls == {PyStr("https://project.supabase.co"), None}

\* connect_to_supabase_http(url, key)
connect_to_supabase_http(url, fate) ==
    IF IsNone(url) THEN
        [ret |-> Returned([ok |-> FALSE,
                           msg |-> <<"Connection failed: ", "AttributeError('rstrip')">>]),
         requests |-> <<>>, backend |-> backend,
         supabase_client |-> "none", supabase_connected |-> FALSE]
    ELSE
        LET o == test_connection(fate) IN
        o @@ [supabase_client |-> IF o.ret.val.ok THEN "client" ELSE supabase_client,
              supabase_connected |-> IF o.ret.val.ok THEN TRUE ELSE supabase_connected]

\* The records callers insert; size in hundredths.
RecordSamples ==
    {[symbol |-> "EURUSD", side |-> "buy", size |-> 10, status |-> "executed"],
     [symbol |-> "GBPUSD", side |-> "sell", size |-> 5, status |-> "open"]}
LimitSamples == {1, 20}

\* A method of the client ran: its outcome becomes the new state.
Apply(o, what) ==
    /\ UNCHANGED page_vars
    /\ connected' = o.connected
    /\ account_info' = o.account_info
    /\ demo_positions' = o.demo_positions
    /\ ret' = o.ret
    /\ api_calls' = o.calls
    /\ shown' = o.shown
    /\ op' = what

\* The import block sets MT5_AVAILABLE only when both MetaTrader5 and pytz were
\* imported.  MT5TradingClient.__init__ reads pytz, so where the flag is False
\* the constructor raises NameError and the session holds no client.
Init ==
    /\ MT5_AVAILABLE \in BOOLEAN
    /\ mt5_client = IF MT5_AVAILABLE THEN "client" ELSE "absent"
    /\ connected = FALSE
    /\ account_info = None
    /\ demo_positions = Unset
    /\ op = [name |-> "idle"]
    /\ ret = None
    /\ api_calls = <<>>
    /\ shown = <<>>
    /\ supabase_client = "none"
    /\ supabase_connected = FALSE
    /\ backend = [table \in Tables |-> <<>>]
    /\ http_calls = <<>>
    /\ mt5_connected = FALSE
    /\ cached_client = "uncalled"
    /\ run = NoRun
    /\ portfolio_value = E4(100000000)
    /\ total_trades = 0
    /\ daily_pnl = Zero

\* No call is running and the last result has been taken by the caller.
Idle == op.name = "idle"

\* The arguments callers pass.
SymbolSamples == {"AUDUSD", "BTCUSD", "DOGEUSD"}
MaxSymbols == 2
SymbolLists == UNION {[1..n -> SymbolSamples] : n \in 0..MaxSymbols}

\* What stands for the draws or the ticks of a call that makes none.
NoDraws(n) == [i \in 1..n |-> [u |-> 0, volume |-> 550, time |-> 1700000000]]
NoTicks(n) == [i \in 1..n |-> None]

Connect ==
    /\ mt5_client = "client" /\ Idle
    /\ \E login \in Logins, password \in Passwords, server \in Servers, env \in ConnectEnvs :
          LET o == connect(login, password, server, env) IN
          /\ Answers(env, o.calls)
          /\ Apply(o, [name |-> "connect", login |-> login, password |-> password,
                       server |-> server])
    /\ UNCHANGED <<portfolio, MT5_AVAILABLE, mt5_client>>

Disconnect ==
    /\ mt5_client = "client" /\ Idle
    /\ \E shutdown \in {None, Raise} :
          Apply(disconnect(shutdown), [name |-> "disconnect"])
    /\ UNCHANGED <<portfolio, MT5_AVAILABLE, mt5_client>>

\* Every outcome get_live_prices(symbols) can have in the current state.  The
\* random draws are made only where demo quotes are generated, the tick queries
\* only on the live path; the ticks after the first one that raises are never
\* asked for.
LivePricesOutcomes(symbols) ==
    LET n == Len(symbols) IN
    IF ~connected \/ ~MT5_AVAILABLE THEN
        {get_live_prices(symbols, NoTicks(n), draws) : draws \in [1..n -> Draws]}
    ELSE
        {get_live_prices(symbols, ticks, NoDraws(n)) :
            ticks \in [1..n -> TickOutcomes \ {Raise}]}
        \cup
        {get_live_prices(symbols, td[1], td[2]) :
            td \in {ticks \in [1..n -> TickOutcomes] :
                       /\ \E i \in 1..n : IsRaise(ticks[i])
                       /\ \A i \in (1..n) \ Reached(ticks) : IsRaise(ticks[i])}
                   \X [1..n -> Draws]}

GetLivePrices ==
    /\ mt5_client = "client" /\ Idle
    /\ \E symbols \in SymbolLists :
          \E o \in LivePricesOutcomes(symbols) :
              Apply(o, [name |-> "get_live_prices", symbols |-> symbols])
    /\ UNCHANGED <<portfolio, MT5_AVAILABLE, mt5_client>>

\* st.session_state.live_data_symbols: the default, or a list without BTCUSD.
LiveDataSymbolLists == {<<"EURUSD", "GBPUSD", "BTCUSD", "XAUUSD">>, <<"EURUSD">>}

\* The chart data of one run of the page.
LiveCharts ==
    /\ mt5_client = "client" /\ Idle
    /\ \E live_data_symbols \in LiveDataSymbolLists, n \in 1..MaxPoints :
       \E noise \in [1..n -> NoiseSamples] :
          LET asked == \E i \in 1..Len(live_data_symbols) : live_data_symbols[i] = "BTCUSD"
              what == [name |-> "chart_data", live_data_symbols |-> live_data_symbols]
          IN
          IF asked THEN
              \E o \in LivePricesOutcomes(<<"BTCUSD">>) :
                  Apply(chart_data(TRUE, o, noise), what)
          ELSE
              Apply(chart_data(FALSE, Outcome(connected, account_info, Returned(<<>>),
                                              <<>>, <<>>), noise), what)
    /\ UNCHANGED <<portfolio, MT5_AVAILABLE, mt5_client>>

OrderTypes == {"BUY", "SELL", "buy"}
\* Volumes in hundredths: 0.01, 0.1, 0.25, 1.0
VolumeSamples == {1, 10, 25, 100}
PriceArgs == {None, PyFloat(Zero), PyFloat(E4(11000))}
StopArgs == {None, PyFloat(E4(10900))}

\* order_send is called only on the live path; price, sl and tp are read only there.
PlaceOrder ==
    /\ mt5_client = "client" /\ Idle
    /\ \E symbol \in SymbolSamples, order_type \in OrderTypes, volume \in VolumeSamples :
          LET what == [name |-> "place_order", symbol |-> symbol,
                       order_type |-> order_type, volume |-> volume]
          IN
          IF ~connected \/ ~MT5_AVAILABLE THEN
              Apply(place_order(symbol, order_type, volume, None, None, None, None), what)
          ELSE
              \E price \in PriceArgs, sl \in StopArgs, tp \in StopArgs, sent \in OrderOutcomes :
                  Apply(place_order(symbol, order_type, volume, price, sl, tp, sent), what)
    /\ UNCHANGED <<portfolio, MT5_AVAILABLE, mt5_client>>

\* hasattr records what hasattr(st.session_state, 'demo_positions') was at the call.
GetPositions ==
    /\ mt5_client = "client" /\ Idle
    /\ LET what == [name |-> "get_positions", hasattr |-> demo_positions # Unset] IN
       IF ~connected \/ ~MT5_AVAILABLE THEN
           Apply(get_positions(None), what)
       ELSE
           \E positions \in PositionsOutcomes :
               Apply(get_positions(positions), what)
    /\ UNCHANGED <<portfolio, MT5_AVAILABLE, mt5_client>>

ConnectToSupabaseHttp ==
    /\ Idle
    /\ \E url \in Urls, fate \in Fates :
          LET o == connect_to_supabase_http(url, fate) IN
          /\ ApplyHttp(o, [name |-> "connect_to_supabase_http", url |-> url])
          /\ supabase_client' = o.supabase_client
          /\ supabase_connected' = o.supabase_connected

TestConnection ==
    /\ supabase_client = "client" /\ Idle
    /\ \E fate \in Fates : ApplyHttp(test_connection(fate), [name |-> "test_connection"])
    /\ UNCHANGED <<supabase_client, supabase_connected>>

\* The endpoint holds at most MaxRows rows a table.
InsertData ==
    /\ supabase_client = "client" /\ Idle
    /\ \E table \in Tables \cup MissingTables, data \in RecordSamples,
          fate \in Fates, status \in AcceptStatuses :
          LET o == insert_data(table, data, fate, status) IN
          /\ \A t \in DOMAIN o.backend : Len(o.backend[t]) <= MaxRows
          /\ ApplyHttp(o, [name |-> "insert_data", table |-> table, data |-> data])
    /\ UNCHANGED <<supabase_client, supabase_connected>>

SelectData ==
    /\ supabase_client = "client" /\ Idle
    /\ \E table \in Tables \cup MissingTables, limit \in LimitSamples, fate \in Fates :
          ApplyHttp(select_data(table, limit, fate),
                    [name |-> "select_data", table |-> table, limit |-> limit])
    /\ UNCHANGED <<supabase_client, supabase_connected>>

\* The caller takes the result: the client is ready for the next call.
Return ==
    /\ ~Idle
    /\ op' = [name |-> "idle"]
    /\ ret' = None
    /\ api_calls' = <<>>
    /\ shown' = <<>>
    /\ http_calls' = <<>>
    /\ UNCHANGED <<portfolio, MT5_AVAILABLE, mt5_client,
                   connected, account_info, demo_positions,
                   supabase_client, supabase_connected, backend, mt5_connected,
                   cached_client, run>>

Next ==
    \/ Connect
    \/ Disconnect
    \/ GetLivePrices
    \/ PlaceOrder
    \/ GetPositions
    \/ LiveCharts
    \/ Return

\* The calls of the broker client.
Spec == Init /\ [][Next]_vars

StoreNext ==
    \/ ConnectToSupabaseHttp
    \/ TestConnection
    \/ InsertData
    \/ SelectData
    \/ Return

\* The calls of the persistence client, which shares no state with the
\* broker client.
StoreSpec == Init /\ [][StoreNext]_vars

---------------------------------------------------------------------------
(* The page *)

\* Streamlit runs the script from its top on every interaction and on every
\* st.rerun().  At most one button is clicked in a run.  A run goes through
\* the session initialisation, the Live Charts tab, the Positions tab and then
\* the handler of the clicked button; run.pc is the part it comes to next.
Buttons ==
    {"none", "Refresh Now", "Place Order", "Connect to MT5", "Disconnect",
     "Login to MT5", "Test Manual Connection", "Connect Now", "Save Portfolio"}

\* What one part of a run leaves in the record of the last operation.
PageStep(what, r, calls, errs, requests) ==
    /\ op' = what
    /\ ret' = r
    /\ api_calls' = calls
    /\ shown' = errs
    /\ http_calls' = requests

\* init_supabase_http_connection() under st.cache_resource: the first call sees
\* whether the secrets hold SUPABASE_URL and SUPABASE_KEY, later calls get what
\* the first one returned.
CachedClients == IF cached_client = "uncalled" THEN {"none", "client"} ELSE {cached_client}

\* A slip: the client is stored before its connection is tested.
auto_init_stores_untested(http_client, fate) ==
    IF supabase_client # "none" THEN
        [cached_client |-> cached_client, supabase_client |-> supabase_client,
         supabase_connected |-> supabase_connected, requests |-> <<>>]
    ELSE IF http_client = "none" THEN
        [cached_client |-> http_client, supabase_client |-> supabase_client,
         supabase_connected |-> supabase_connected, requests |-> <<>>]
    ELSE
        LET o == test_connection(fate) IN
        [cached_client |-> http_client,
         supabase_client |-> "client",
         supabase_connected |-> IF o.ret.val.ok THEN TRUE ELSE supabase_connected,
         requests |-> o.requests]

\* The automatic initialisation at the top of the script.
auto_init(http_client, fate) ==
    IF supabase_client # "none" THEN
        [cached_client |-> cached_client, supabase_client |-> supabase_client,
         supabase_connected |-> supabase_connected, requests |-> <<>>]
    ELSE IF http_client = "none" THEN
        [cached_client |-> http_client, supabase_client |-> supabase_client,
         supabase_connected |-> supabase_connected, requests |-> <<>>]
    ELSE
        LET o == test_connection(fate) IN
        [cached_client |-> http_client,
         supabase_client |-> IF o.ret.val.ok THEN "client" ELSE supabase_client,
         supabase_connected |-> IF o.ret.val.ok THEN TRUE ELSE supabase_connected,
         requests |-> o.requests]

\* A run starts: by a click, by a changed widget or by a reload.  The manual
\* connection form is on the page only while the backend is not connected,
\* the Connect Now button only while, besides, the secrets hold the URL and
\* the key, the Save Portfolio button only while the backend is connected.
StartRun ==
    /\ mt5_client = "client"
    /\ run.pc \in {"none", "reload"}
    /\ \E clicked \in Buttons, auto_refresh \in BOOLEAN :
          /\ clicked = "Test Manual Connection" => ~supabase_connected
          /\ clicked = "Connect Now" => (~supabase_connected /\ cached_client = "client")
          /\ clicked = "Save Portfolio" => supabase_connected
          /\ run' = [pc |-> "charts", clicked |-> clicked, auto_refresh |-> auto_refresh]
    /\ \E http_client \in CachedClients, fate \in Fates :
          LET o == auto_init(http_client, fate) IN
          /\ cached_client' = o.cached_client
          /\ supabase_client' = o.supabase_client
          /\ supabase_connected' = o.supabase_connected
          /\ PageStep([name |-> "session_init"], None, <<>>, <<>>, o.requests)
    /\ UNCHANGED <<portfolio, MT5_AVAILABLE, mt5_client,
                   connected, account_info, demo_positions,
                   backend, mt5_connected>>

\* if st.button("Refresh Now"): st.rerun()
RefreshNowButton ==
    /\ run.pc = "charts" /\ run.clicked = "Refresh Now"
    /\ run' = [run EXCEPT !.pc = "reload"]
    /\ PageStep([name |-> "Refresh Now"], None, <<>>, <<>>, <<>>)
    /\ UNCHANGED <<portfolio, MT5_AVAILABLE, mt5_client,
                   connected, account_info, demo_positions,
                   supabase_client, supabase_connected, backend, mt5_connected,
                   cached_client>>

\* A slip: the reload is left to the end of the script.
auto_refreshes_never(auto_refresh) == FALSE

\* if auto_refresh and st.session_state.mt5_connected: time.sleep(2); st.rerun()
auto_refreshes(auto_refresh) == auto_refresh /\ mt5_connected

\* The outcomes of get_live_prices(symbols) on the page, which displays the
\* quotes and drops them: one draw of the demo generator stands for all.
DisplayedPricesOutcomes(symbols) ==
    LET n == Len(symbols) IN
    IF ~connected \/ ~MT5_AVAILABLE THEN
        {get_live_prices(symbols, NoTicks(n), NoDraws(n))}
    ELSE
        {get_live_prices(symbols, ticks, NoDraws(n)) :
            ticks \in {t \in [1..n -> TickOutcomes] :
                          \A i \in (1..n) \ Reached(t) : IsRaise(t[i])}}

\* The Live Charts tab: the quotes of live_data_symbols, the quote of BTCUSD
\* for the chart, then the auto-refresh.  The tab keeps nothing of the quotes
\* but the messages get_live_prices showed.
LiveChartsSection ==
    /\ run.pc = "charts" /\ run.clicked # "Refresh Now"
    /\ \E live_data_symbols \in LiveDataSymbolLists :
       \E o \in DisplayedPricesOutcomes(live_data_symbols) :
          LET asked == \E i \in 1..Len(live_data_symbols) : live_data_symbols[i] = "BTCUSD"
              what == [name |-> "live_charts"]
          IN
          IF asked THEN
              \E o2 \in DisplayedPricesOutcomes(<<"BTCUSD">>) :
                  PageStep(what, None, <<>>, o.shown \o o2.shown, <<>>)
          ELSE PageStep(what, None, <<>>, o.shown, <<>>)
    /\ run' = [run EXCEPT !.pc = IF auto_refreshes(run.auto_refresh)
                                  THEN "reload" ELSE "positions"]
    /\ UNCHANGED <<portfolio, MT5_AVAILABLE, mt5_client,
                   connected, account_info, demo_positions,
                   supabase_client, supabase_connected, backend, mt5_connected,
                   cached_client>>

\* Every outcome get_positions() can have in the current state.
PositionsCallOutcomes ==
    IF ~connected \/ ~MT5_AVAILABLE THEN {get_positions(None)}
    ELSE {get_positions(positions) : positions \in PositionsOutcomes}

\* The Positions tab: the live table when the session is flagged connected,
\* the fixed sample table otherwise.
PositionsSection ==
    /\ run.pc = "positions"
    /\ IF mt5_connected THEN
           \E o \in PositionsCallOutcomes :
               /\ demo_positions' = o.demo_positions
               /\ PageStep([name |-> "positions_table", live |-> TRUE],
                           Returned(live_df(o.ret.val.items)), o.calls, o.shown, <<>>)
       ELSE
           /\ demo_positions' = demo_positions
           /\ PageStep([name |-> "positions_table", live |-> FALSE], None,
                       <<>>, <<>>, <<>>)
    /\ run' = [run EXCEPT !.pc = "handlers"]
    /\ UNCHANGED <<portfolio, MT5_AVAILABLE, mt5_client,
                   connected, account_info,
                   supabase_client, supabase_connected, backend, mt5_connected,
                   cached_client>>

\* trade_type.lower()
Lower(trade_type) == IF trade_type = "BUY" THEN "buy" ELSE "sell"

\* The record the Place Order handler builds; size in hundredths.
trade_data(trade_symbol, trade_type, trade_volume) ==
    [symbol |-> trade_symbol, side |-> Lower(trade_type), size |-> trade_volume,
     entry_price |-> 0, status |-> "executed"]

\* save_trade_to_supabase(trade_data): the session's client is a
\* SupabaseHTTPClient, which has no attribute `table`; the AttributeError is
\* caught and shown, and no request is made.
save_trade_to_supabase(data) ==
    IF ~supabase_connected \/ supabase_client = "none" THEN
        [saved |-> FALSE, requests |-> <<>>, shown |-> <<>>]
    ELSE
        [saved |-> FALSE, requests |-> <<>>,
         shown |-> <<"Failed to save trade: 'SupabaseHTTPClient' object has no attribute 'table'">>]

\* The widgets of the Manual Trading form.
TradeSymbols == {"EURUSD", "BTCUSD"}
TradeTypes == {"BUY", "SELL"}

\* The calls before the handlers are over and left nothing to change.
HandlerOf(button) == run.pc = "handlers" /\ run.clicked = button

\* The Place Order button.
PlaceOrderButton ==
    /\ HandlerOf("Place Order")
    /\ \E trade_symbol \in TradeSymbols, trade_type \in TradeTypes,
          trade_volume \in VolumeSamples,
          sent \in (IF ~connected \/ ~MT5_AVAILABLE THEN {None} ELSE OrderOutcomes) :
          LET o == place_order(trade_symbol, trade_type, trade_volume, None, None, None, sent)
              data == trade_data(trade_symbol, trade_type, trade_volume)
              save == IF o.ret.val.ok /\ supabase_connected
                      THEN save_trade_to_supabase(data)
                      ELSE [saved |-> FALSE, requests |-> <<>>, shown |-> <<>>]
          IN
          /\ PageStep([name |-> "Place Order", symbol |-> trade_symbol,
                       order_type |-> trade_type, volume |-> trade_volume],
                      o.ret, o.calls, save.shown, save.requests)
    /\ run' = NoRun
    /\ UNCHANGED <<portfolio, MT5_AVAILABLE, mt5_client,
                   connected, account_info, demo_positions,
                   supabase_client, supabase_connected, backend, mt5_connected,
                   cached_client>>

\* The flag after a Connect to MT5 or a Login to MT5 click: set on success.
connected_flag(o) == IF o.ret.val.ok THEN TRUE ELSE mt5_connected

\* The Connect to MT5 button: connect() without credentials; st.rerun() on
\* success.
ConnectButton ==
    /\ HandlerOf("Connect to MT5")
    /\ \E env \in ConnectEnvs :
          LET o == connect(None, None, None, env) IN
          /\ Answers(env, o.calls)
          /\ connected' = o.connected
          /\ account_info' = o.account_info
          /\ mt5_connected' = connected_flag(o)
          /\ PageStep([name |-> "Connect to MT5"], o.ret, o.calls, <<>>, <<>>)
          /\ run' = IF o.ret.val.ok THEN [run EXCEPT !.pc = "reload"] ELSE NoRun
    /\ UNCHANGED <<portfolio, MT5_AVAILABLE, mt5_client,
                   demo_positions, supabase_client,
                   supabase_connected, backend, cached_client>>

\* A slip: the handler goes on after an exception of disconnect().
disconnected_flag_always(o) == FALSE

\* The flag after a Disconnect click: the assignment follows the call, so an
\* exception of disconnect() leaves the flag as it was.
disconnected_flag(o) == IF o.ret.kind = "raise" THEN mt5_connected ELSE FALSE

\* The Disconnect button: disconnect(), the flag, st.rerun().
DisconnectButton ==
    /\ HandlerOf("Disconnect")
    /\ \E shutdown \in {None, Raise} :
          LET o == disconnect(shutdown) IN
          /\ connected' = o.connected
          /\ account_info' = o.account_info
          /\ mt5_connected' = disconnected_flag(o)
          /\ PageStep([name |-> "Disconnect"], o.ret, o.calls, <<>>, <<>>)
          /\ run' = IF o.ret.kind = "raise" THEN NoRun ELSE [run EXCEPT !.pc = "reload"]
    /\ UNCHANGED <<portfolio, MT5_AVAILABLE, mt5_client,
                   demo_positions, supabase_client,
                   supabase_connected, backend, cached_client>>

\* The widgets of the manual login form: the number input has min_value=1.
LoginInputs == {PyInt(2002)}
TextInputs == {PyStr(""), PyStr("secret")}

\* The Login to MT5 button: connect() with the three fields when none is
\* empty, a warning otherwise.
LoginButton ==
    /\ HandlerOf("Login to MT5")
    /\ \E mt5_login \in LoginInputs, mt5_password \in TextInputs, mt5_server \in TextInputs :
          LET what == [name |-> "Login to MT5", login |-> mt5_login,
                       password |-> mt5_password, server |-> mt5_server]
          IN
          IF Truthy(mt5_login) /\ Truthy(mt5_password) /\ Truthy(mt5_server) THEN
              \E env \in ConnectEnvs :
                  LET o == connect(mt5_login, mt5_password, mt5_server, env) IN
                  /\ Answers(env, o.calls)
                  /\ connected' = o.connected
                  /\ account_info' = o.account_info
                  /\ mt5_connected' = connected_flag(o)
                  /\ PageStep(what, o.ret, o.calls, <<>>, <<>>)
                  /\ run' = IF o.ret.val.ok THEN [run EXCEPT !.pc = "reload"] ELSE NoRun
          ELSE
              /\ UNCHANGED <<connected, account_info, mt5_connected>>
              /\ PageStep(what, None, <<>>, <<"Please fill in all MT5 credentials">>, <<>>)
              /\ run' = NoRun
    /\ UNCHANGED <<portfolio, MT5_AVAILABLE, mt5_client,
                   demo_positions, supabase_client,
                   supabase_connected, backend, cached_client>>

\* The Connect Now handler: the cached client is tested and, when the test
\* succeeds, stored in the session together with the flag.
connect_now(http_client, fate) ==
    IF http_client = "none" THEN
        [ret |-> None, requests |-> <<>>, shown |-> <<"Failed to initialize client">>,
         supabase_client |-> supabase_client, supabase_connected |-> supabase_connected]
    ELSE
        LET o == test_connection(fate) IN
        [ret |-> o.ret, requests |-> o.requests,
         shown |-> IF o.ret.val.ok THEN <<>> ELSE o.ret.val.msg,
         supabase_client |-> IF o.ret.val.ok THEN "client" ELSE supabase_client,
         supabase_connected |-> IF o.ret.val.ok THEN TRUE ELSE supabase_connected]

\* The Connect Now button, drawn while the backend is not connected.  The
\* st.rerun() after a success raises inside the bare `except:` around the
\* button, which takes it for a missing secret: the script runs on to its end.
ConnectNowButton ==
    /\ HandlerOf("Connect Now") /\ ~supabase_connected
    /\ \E fate \in Fates :
          LET o == connect_now(cached_client, fate) IN
          /\ supabase_client' = o.supabase_client
          /\ supabase_connected' = o.supabase_connected
          /\ PageStep([name |-> "Connect Now"], o.ret, <<>>, o.shown, o.requests)
    /\ run' = NoRun
    /\ UNCHANGED <<portfolio, MT5_AVAILABLE, mt5_client,
                   connected, account_info, demo_positions,
                   backend, mt5_connected, cached_client>>

\* The Test Manual Connection button, drawn while the backend is not
\* connected: connect_to_supabase_http(url, key) when both fields are filled
\* in, a warning otherwise.
ManualConnectionButton ==
    /\ HandlerOf("Test Manual Connection") /\ ~supabase_connected
    /\ \E manual_url \in {PyStr(""), PyStr("https://project.supabase.co")},
          manual_key \in TextInputs, fate \in Fates :
          LET what == [name |-> "Test Manual Connection"] IN
          IF Truthy(manual_url) /\ Truthy(manual_key) THEN
              LET o == connect_to_supabase_http(manual_url, fate) IN
              /\ supabase_client' = o.supabase_client
              /\ supabase_connected' = o.supabase_connected
              /\ PageStep(what, o.ret, <<>>, <<>>, o.requests)
          ELSE
              /\ UNCHANGED <<supabase_client, supabase_connected>>
              /\ PageStep(what, None, <<>>, <<"Please enter both URL and key">>, <<>>)
    /\ run' = NoRun
    /\ UNCHANGED <<portfolio, MT5_AVAILABLE, mt5_client,
                   connected, account_info, demo_positions,
                   backend, mt5_connected, cached_client>>

\* A slip: the snapshot counts the rows of the portfolio_history table as
\* trades.
portfolio_data_counts_rows ==
    [total_value |-> portfolio_value, daily_pnl |-> daily_pnl,
     total_trades |-> Len(backend["portfolio_history"])]

\* The record the Save Portfolio handler builds from the session.
portfolio_data ==
    [total_value |-> portfolio_value, daily_pnl |-> daily_pnl,
     total_trades |-> total_trades]

\* The Save Portfolio button, drawn while the backend is connected:
\* insert_data('portfolio_history', portfolio_data).  The endpoint holds at
\* most MaxRows rows a table.
SavePortfolioButton ==
    /\ HandlerOf("Save Portfolio") /\ supabase_connected
    /\ \E fate \in Fates, status \in AcceptStatuses :
          LET o == insert_data("portfolio_history", portfolio_data, fate, status) IN
          /\ \A t \in DOMAIN o.backend : Len(o.backend[t]) <= MaxRows
          /\ backend' = o.backend
          /\ PageStep([name |-> "Save Portfolio", data |-> portfolio_data], o.ret,
                      <<>>, <<>>, o.requests)
    /\ run' = NoRun
    /\ UNCHANGED <<portfolio, MT5_AVAILABLE, mt5_client, connected, account_info,
                   demo_positions, supabase_client, supabase_connected, mt5_connected,
                   cached_client>>

\* The buttons of the connection form, which a run does not draw once its
\* automatic initialisation has connected the backend.
ConnectionForm == {"Test Manual Connection", "Connect Now"}

\* No button was clicked, or the clicked one is not drawn in this run: the
\* script runs to its end.
EndRun ==
    /\ \/ HandlerOf("none")
       \/ run.pc = "handlers" /\ run.clicked \in ConnectionForm /\ supabase_connected
    /\ run' = NoRun
    /\ PageStep([name |-> "end"], None, <<>>, <<>>, <<>>)
    /\ UNCHANGED <<portfolio, MT5_AVAILABLE, mt5_client,
                   connected, account_info, demo_positions,
                   supabase_client, supabase_connected, backend, mt5_connected,
                   cached_client>>

PageNext ==
    \/ StartRun
    \/ RefreshNowButton
    \/ LiveChartsSection
    \/ PositionsSection
    \/ PlaceOrderButton
    \/ ConnectButton
    \/ DisconnectButton
    \/ LoginButton
    \/ ConnectNowButton
    \/ ManualConnectionButton
    \/ SavePortfolioButton
    \/ EndRun

PageSpec == Init /\ [][PageNext]_vars

---------------------------------------------------------------------------
(* Properties *)

Contains(msg, part) == \E i \in 1..Len(msg) : msg[i] = part
SymbolSet(symbols) == {symbols[i] : i \in 1..Len(symbols)}
\* An operation that runs on the live path only while Connected.
Degrading == {"get_live_prices", "get_positions", "place_order"}
\* A call whose outcome was an exception.
SomeCallRaised(calls) == \E i \in 1..Len(calls) : IsRaise(calls[i].out)
\* A quote _get_demo_prices can give for the symbol.
IsDemoQuote(symbol, q) == \E d \in Draws : q = DemoQuote(symbol, d)
\* r returns demo quotes, one for each symbol requested in o.
DemoQuotesReturned(r, o) ==
    /\ r.kind = "return"
    /\ DOMAIN r.val = SymbolSet(o.symbols)
    /\ \A symbol \in DOMAIN r.val : IsDemoQuote(symbol, r.val[symbol])

(* C1: the connection state follows Disconnected --connect success-->        *)
(* Connected --disconnect--> Disconnected: a new client is Disconnected,      *)
(* connected becomes true only in a connect() that returns success, after     *)
(* any disconnect() call connected is false, and get_live_prices,             *)
(* get_positions and place_order leave connected as it was.                   *)
C1_ConnectionStateMachine ==
    [][/\ (op'.name = "disconnect" => ~connected')
       /\ (~connected /\ connected' => op'.name = "connect" /\ ret'.val.ok)
       /\ (op'.name \in Degrading => connected' = connected)]_vars

(* C2: while the client is Disconnected, get_live_prices, get_positions and   *)
(* place_order make no terminal call and return the demo result: demo quotes  *)
(* for the requested symbols, the stored demo position list, a synthetic      *)
(* order success.                                                            *)
C2_DisconnectedIsDemo ==
    [][(~connected /\ op'.name \in Degrading) =>
         /\ api_calls' = <<>>
         /\ ret'.kind = "return"
         /\ (op'.name = "get_live_prices" => DemoQuotesReturned(ret', op'))
         /\ (op'.name = "get_positions" =>
                /\ ret'.val = demo_positions'
                /\ demo_positions'.items = <<DemoPosition>>)
         /\ (op'.name = "place_order" => ret'.val.ok /\ ret'.val.msg[1] = "DEMO: ")]_vars

\* A disconnected client that was connected before is asked for its positions.
C2_Witness ==
    /\ op.name = "get_positions"
    /\ ~connected
    /\ account_info # None
    /\ api_calls = <<>>

(* C3: when the client is Connected and a tick query raises, get_live_prices  *)
(* returns normally, with a demo quote for every requested symbol, and        *)
(* leaves connected as it was.                                               *)
C3_TickFailureDegrades ==
    [][(connected /\ op'.name = "get_live_prices" /\ SomeCallRaised(api_calls')) =>
         /\ DemoQuotesReturned(ret', op')
         /\ connected' = connected]_vars

\* The second of two tick queries raised, after the first gave a tick.
C3_Witness ==
    /\ op.name = "get_live_prices"
    /\ connected
    /\ Len(api_calls) = 2
    /\ api_calls[1].out \in TickSamples
    /\ IsRaise(api_calls[2].out)
    /\ Cardinality(DOMAIN ret.val) = 2

\* The decimal text of the volumes of VolumeSamples (given in hundredths).
DecimalText(volume) ==
    CASE volume = 1 -> "0.01"
      [] volume = 10 -> "0.1"
      [] volume = 25 -> "0.25"
      [] volume = 100 -> "1.0"

(* C4: in Demo mode (client not connected) place_order returns success for   *)
(* every symbol, side and volume, with a message that contains the requested  *)
(* side, the requested volume and the requested symbol; it makes no terminal  *)
(* call and leaves the demo position list as it was.                         *)
C4_DemoOrderSucceeds ==
    [][(~connected /\ op'.name = "place_order") =>
         /\ ret'.kind = "return"
         /\ ret'.val.ok
         /\ Contains(ret'.val.msg, op'.order_type)
         /\ Contains(ret'.val.msg, DecimalText(op'.volume))
         /\ Contains(ret'.val.msg, op'.symbol)
         /\ api_calls' = <<>>
         /\ demo_positions' = demo_positions]_vars

\* A demo SELL order of 0.25 placed while the demo position list exists.
C4_Witness ==
    /\ op.name = "place_order"
    /\ ~connected
    /\ op.order_type = "SELL"
    /\ op.volume = 25
    /\ demo_positions # Unset
    /\ ret.val.ok

(* C5: in Demo mode the first get_positions call of a session stores a        *)
(* single-element list, and every later call, whatever was called in         *)
(* between, returns that same stored list: the stored list is never replaced. *)
C5_DemoPositionsStable ==
    [][/\ (~connected /\ op'.name = "get_positions") =>
            /\ ret'.val = demo_positions'
            /\ Len(demo_positions'.items) = 1
            /\ (demo_positions # Unset => ret'.val.ref = demo_positions.ref)
       /\ (demo_positions # Unset => demo_positions' = demo_positions)]_vars

\* A later demo call, made after the client was connected and disconnected.
C5_Witness ==
    /\ op.name = "get_positions"
    /\ op.hasattr
    /\ ~connected
    /\ account_info # None
    /\ ret.val = demo_positions

\* The symbols base_prices lists.
KnownSymbols ==
    {"EURUSD", "GBPUSD", "USDJPY", "AUDUSD", "USDCAD", "BTCUSD", "ETHUSD", "XAUUSD"}

(* C6: demo quotes hold one quote for each requested symbol, with ask >= bid  *)
(* >= 0 and bid <= last <= ask; a symbol that base_prices does not list is    *)
(* quoted around 100.0: bid within 100.0 * 0.001 of it, ask - bid = 0.01.     *)
C6_DemoQuotesOrdered ==
    (op.name = "get_live_prices" /\ (~connected \/ shown # <<>>)) =>
        /\ DOMAIN ret.val = SymbolSet(op.symbols)
        /\ \A symbol \in DOMAIN ret.val :
              LET q == ret.val[symbol] IN
              /\ Leq(Zero, q.bid) /\ Leq(q.bid, q.ask)
              /\ Leq(q.bid, q.last) /\ Leq(q.last, q.ask)
              /\ symbol \notin KnownSymbols =>
                    /\ Leq(E4(999000), q.bid) /\ Leq(q.bid, E4(1001000))
                    /\ Sub(q.ask, q.bid) = E4(100)

\* Demo quotes for a listed and an unlisted symbol in one result.
C6_Witness ==
    /\ op.name = "get_live_prices"
    /\ ~connected
    /\ DOMAIN ret.val = {"AUDUSD", "DOGEUSD"}
    /\ ret.val["AUDUSD"].bid # ret.val["AUDUSD"].last

\* Ceiling ratios of the band.  The source names none.
CeilRatios == {2, 3}

(* C7: every price of a generated series lies in the band around its base    *)
(* price, at or above base_price * 0.8 and at or below base_price times the   *)
(* ceiling ratio of the band, for the default base price and for the last     *)
(* price of the BTCUSD quote.  It is stated for the most generous ratio of    *)
(* CeilRatios.                                                               *)
C7_PriceWithinBand ==
    op.name = "chart_data" =>
        LET base_price == ret.val.base_price IN
        \E c \in CeilRatios :
            \A i \in 1..Len(ret.val.df) :
                /\ Leq(MulFrac(base_price, 4, 5), ret.val.df[i].price)
                /\ Leq(ret.val.df[i].price, MulFrac(base_price, c, 1))

(* C8: in Live mode, when order_send answers with a return code other than   *)
(* TRADE_RETCODE_DONE, place_order returns a failure whose message carries    *)
(* the broker's return code and the broker's comment; it returns success      *)
(* only when the return code is TRADE_RETCODE_DONE.                          *)
C8_OrderErrorCarriesCode ==
    (op.name = "place_order" /\ api_calls # <<>> /\ api_calls[1].out \in OrderResults) =>
        LET result == api_calls[1].out IN
        /\ ret.val.ok => result.retcode = TRADE_RETCODE_DONE
        /\ result.retcode # TRADE_RETCODE_DONE =>
              /\ ~ret.val.ok
              /\ Contains(ret.val.msg, result.comment)
              /\ Contains(ret.val.msg, ToString(result.retcode))

\* The call that ended connect() is its last one.
LastCall(calls) == calls[Len(calls)]

(* C9: connect() returns a failure when initialize() fails, when login() is   *)
(* rejected, when account_info() is None and when a terminal call raises,     *)
(* each with its own message; a connect() that returns a failure leaves       *)
(* connected and account_info as they were, also on a Connected client.      *)
C9_FailedConnectChangesNothing ==
    [][(op'.name = "connect" /\ MT5_AVAILABLE) =>
         LET last == LastCall(api_calls')
             msg == ret'.val.msg
         IN
         /\ ret'.kind = "return"
         /\ SomeCallRaised(api_calls') =>
                ~ret'.val.ok /\ msg[1] = "MT5 connection error: "
         /\ (last.fn = "last_error" /\ ~IsRaise(last.out)) =>
                /\ ~ret'.val.ok
                /\ api_calls'[Len(api_calls') - 1].out = PyBool(FALSE)
                /\ msg[1] = IF api_calls'[Len(api_calls') - 1].fn = "initialize"
                            THEN "MT5 initialize failed: " ELSE "MT5 login failed: "
         /\ (last.fn = "account_info" /\ IsNone(last.out)) =>
                ~ret'.val.ok /\ msg[1] = "Failed to get account info"
         /\ (\E i \in 1..Len(api_calls') :
                api_calls'[i].fn \in {"initialize", "login"}
                /\ api_calls'[i].out = PyBool(FALSE)) => ~ret'.val.ok
         /\ ~ret'.val.ok =>
                connected' = connected /\ account_info' = account_info]_vars

\* A Connected client whose new login was rejected: it stays Connected, on the
\* account it had.
C9_Witness ==
    /\ op.name = "connect"
    /\ ~ret.val.ok
    /\ ret.val.msg[1] = "MT5 login failed: "
    /\ connected
    /\ account_info = [login |-> 1001]

LoginCalled(calls) == \E i \in 1..Len(calls) : calls[i].fn = "login"
\* The initialisation succeeded, so connect() went on to the credentials.
Initialized(calls) == calls # <<>> /\ calls[1].out = PyBool(TRUE)

(* C10: connect() calls login exactly when credentials are supplied: none     *)
(* without credentials, and a rejected login makes connect() fail; a call     *)
(* that supplies only some of login, password and server does not return      *)
(* success.                                                                  *)
C10_LoginIffCredentials ==
    (op.name = "connect" /\ Initialized(api_calls)) =>
        LET given == {x \in {op.login, op.password, op.server} : Truthy(x)} IN
        /\ given = {} => ~LoginCalled(api_calls)
        /\ given # {} => LoginCalled(api_calls) \/ ~ret.val.ok
        /\ (\E i \in 1..Len(api_calls) :
               api_calls[i].fn = "login" /\ api_calls[i].out = PyBool(FALSE))
           => ~ret.val.ok

\* The answer to the request of the last call of the persistence client.
Answer == http_calls[1].out
\* The endpoint was reached and answered as the backend double does.
Answered == ~IsRaise(Answer) /\ Answer.status_code # 500

(* C11: insert_data returns success exactly when the endpoint answers 200 or  *)
(* 201; on any other status it returns a failure whose message holds the      *)
(* response body; when the endpoint is unreachable it returns a failure, it   *)
(* does not raise.                                                           *)
C11_InsertSuccessIffAccepted ==
    op.name = "insert_data" =>
        /\ ret.kind = "return"
        /\ ret.val.ok <=> (~IsRaise(Answer) /\ Answer.status_code \in {200, 201})
        /\ (~IsRaise(Answer) /\ Answer.status_code \notin {200, 201}) =>
              Contains(ret.val.msg, Answer.text)
        /\ IsRaise(Answer) => ~ret.val.ok

\* An insert into a table the endpoint does not have, refused with 404.
C11_Witness ==
    /\ op.name = "insert_data"
    /\ ~IsRaise(Answer)
    /\ Answer.status_code = 404
    /\ ~ret.val.ok

(* C12: select_data returns success, with the rows of the response, exactly   *)
(* when the endpoint answers 200, so a table with no rows gives success with  *)
(* an empty sequence; when the endpoint is unreachable or answers another     *)
(* status it returns a failure, which differs from the empty-table result.    *)
C12_SelectSuccessIff200 ==
    op.name = "select_data" =>
        /\ ret.kind = "return"
        /\ ret.val.ok <=> (~IsRaise(Answer) /\ Answer.status_code = 200)
        /\ ret.val.ok => ret.val.rows = JsonLoads(Answer.text)
        /\ (Answered /\ op.table \in DOMAIN backend /\ backend[op.table] = <<>>) =>
              ret.val = [ok |-> TRUE, rows |-> <<>>]
        /\ (IsRaise(Answer) \/ Answer.status_code # 200) =>
              ret.val # [ok |-> TRUE, rows |-> <<>>]

\* The endpoint could not be reached for a table that has no rows.
C12_Witness ==
    /\ op.name = "select_data"
    /\ IsRaise(Answer)
    /\ op.table \in DOMAIN backend
    /\ backend[op.table] = <<>>
    /\ ~ret.val.ok

(* C13 as stated: select on a table that is empty, or that does not exist     *)
(* while the backend is reachable, returns an empty sequence with no error.   *)
C13_MissingTableNoError ==
    (op.name = "select_data" /\ Answered
        /\ (op.table \notin DOMAIN backend \/ backend[op.table] = <<>>)) =>
        ret.val = [ok |-> TRUE, rows |-> <<>>]

(* C13, amended: select on a table that has no rows returns an empty sequence *)
(* with no error; select on a table that does not exist, while the backend    *)
(* is reachable, returns an empty sequence flagged as a failure.              *)
C13_MissingTableIsFailure ==
    (op.name = "select_data" /\ Answered) =>
        /\ op.table \notin DOMAIN backend => ret.val = [ok |-> FALSE, rows |-> <<>>]
        /\ (op.table \in DOMAIN backend /\ backend[op.table] = <<>>) =>
              ret.val = [ok |-> TRUE, rows |-> <<>>]

\* The endpoint answered 404 for a table it does not have.
C13_Witness ==
    /\ op.name = "select_data"
    /\ Answered
    /\ op.table \notin DOMAIN backend
    /\ Answer.status_code = 404
    /\ ret.val.rows = <<>>

\* The row holds the record's symbol, side and size.
Matches(row, data) ==
    row.symbol = data.symbol /\ row.side = data.side /\ row.size = data.size

(* C14: against the backend double, a successful insert_data(table, record)   *)
(* stores a row with the record's symbol, side and size, stored rows stay,    *)
(* and a successful select_data(table, limit) with limit at least 1 and at    *)
(* least the number of stored rows returns a row for every stored one; a      *)
(* failed insert, like every other call, leaves the stored rows as they were. *)
C14_InsertSelectRoundTrip ==
    [][/\ (op'.name = "insert_data" /\ ret'.val.ok) =>
            /\ op'.table \in DOMAIN backend
            /\ Len(backend'[op'.table]) = Len(backend[op'.table]) + 1
            /\ SubSeq(backend'[op'.table], 1, Len(backend[op'.table]))
                  = backend[op'.table]
            /\ Matches(backend'[op'.table][Len(backend'[op'.table])], op'.data)
       /\ ~(op'.name = "insert_data" /\ ret'.val.ok) => backend' = backend
       /\ (op'.name = "select_data" /\ ret'.val.ok /\ op'.limit >= 1
              /\ op'.limit >= Len(backend[op'.table])) =>
            \A i \in 1..Len(backend[op'.table]) :
                \E j \in 1..Len(ret'.val.rows) :
                    Matches(ret'.val.rows[j], backend[op'.table][i])]_vars

\* A select that returns the row a successful insert stored.
C14_Witness ==
    /\ op.name = "select_data"
    /\ ret.val.ok
    /\ Len(ret.val.rows) = 1
    /\ Matches(ret.val.rows[1], [symbol |-> "GBPUSD", side |-> "sell", size |-> 5])

\* The methods of the persistence client.
PersistenceOps == {"test_connection", "insert_data", "select_data"}

(* C15: every call of test_connection, insert_data or select_data makes       *)
(* exactly one HTTP request, whatever its outcome: a failed request is not    *)
(* retried, and the one request of a call is that call's own, so a failed     *)
(* insert is not sent again by a later call.                                  *)
C15_OneRequestPerCall ==
    op.name \in PersistenceOps =>
        /\ Len(http_calls) = 1
        /\ op.name = "test_connection" =>
              http_calls[1].request = Get([root |-> TRUE])
        /\ op.name = "insert_data" =>
              http_calls[1].request = Post([table |-> op.table], op.data)
        /\ op.name = "select_data" =>
              http_calls[1].request = Get([table |-> op.table, limit |-> op.limit])

\* An insert that got a server error: one request and no more.
C15_Witness ==
    /\ op.name = "insert_data"
    /\ ~IsRaise(Answer)
    /\ Answer.status_code = 500
    /\ ~ret.val.ok

\* The operations of the two connectors.
ConnectorOps ==
    {"connect", "disconnect", "get_live_prices", "get_positions", "place_order"}
        \cup PersistenceOps

(* C16: no operation of the broker client (connect, disconnect,              *)
(* get_live_prices, get_positions, place_order) or of the persistence client  *)
(* (test_connection, insert_data, select_data) lets a failure of the terminal *)
(* API or of the HTTP endpoint reach its caller: each returns a value,        *)
(* Connected or not.                                                         *)
C16_NoFailurePropagates ==
    op.name \in ConnectorOps => ret.kind = "return"

(* C17: whenever the Place Order button places an order successfully while    *)
(* the backend is connected, one record with the order's symbol, side, size   *)
(* and status 'executed' is sent to the `trades` table, in one insert         *)
(* request; nothing is sent when the order fails or the backend is not        *)
(* connected.                                                                *)
C17_TradeRecordSent ==
    op.name = "Place Order" =>
        IF ret.val.ok /\ supabase_connected THEN
            /\ Len(http_calls) = 1
            /\ http_calls[1].request.method = "POST"
            /\ http_calls[1].request.path = [table |-> "trades"]
            /\ LET sent == JsonLoads(http_calls[1].request.body) IN
               /\ sent.symbol = op.symbol
               /\ sent.side = Lower(op.order_type)
               /\ sent.size = op.volume
               /\ sent.status = "executed"
        ELSE http_calls = <<>>

\* a < b for two decimal numbers
Less(a, b) == Leq(a, b) /\ a # b

(* C18: the profit percentage of a row of the live positions table has the    *)
(* sign of the position's gain: positive for a SELL position whose current    *)
(* price is below its entry price, and for a BUY position positive exactly    *)
(* when the current price is above the entry price.                          *)
C18_PnlPercentFollowsSide ==
    (op.name = "positions_table" /\ op.live) =>
        \A i \in 1..Len(ret.val) :
            LET row == ret.val[i] IN
            /\ (row.Side = "SELL" /\ Less(row.CurrentPrice, row.EntryPrice)) =>
                  row.PnLPercent > 0
            /\ row.Side = "BUY" =>
                  (row.PnLPercent > 0 <=> Less(row.EntryPrice, row.CurrentPrice))

\* What the handlers placed after the auto-refresh leave as the last operation.
LaterHandlers ==
    {"positions_table", "Place Order", "Connect to MT5", "Disconnect", "Login to MT5",
     "Test Manual Connection", "Connect Now", "Save Portfolio", "end"}

C20_FlagFollowsClient ==
    run.pc \in {"none", "reload"} => mt5_connected = connected

\* A Disconnect click whose disconnect() raised: the client is still
\* connected and the page still says so.
C20_Witness ==
    /\ run.pc = "none"
    /\ op.name = "Disconnect"
    /\ ret.kind = "raise"
    /\ connected
    /\ mt5_connected

\* The parts of a run that test the connection of a client they then store.
ConnectionTests == {"Connect Now", "Test Manual Connection"}

(* C21: in every state of the session supabase_connected is true exactly when *)
(* supabase_client is not None: the automatic initialisation, Connect Now and *)
(* connect_to_supabase_http set the two together when their connection test   *)
(* succeeds and leave both as they were, unset, when it fails.               *)
C21_ConnectedIffClient ==
    /\ supabase_connected <=> supabase_client # "none"
    /\ (op.name \in ConnectionTests /\ ret # None) =>
          (supabase_connected <=> ret.val.ok)
    /\ (op.name = "session_init" /\ http_calls # <<>>) =>
          (supabase_connected <=> (~IsRaise(Answer) /\ Answer.status_code = 200))

\* The automatic initialisation failed its test and a click on Connect Now
\* then passed it: the session holds the client and the flag.
C21_Witness ==
    /\ op.name = "Connect Now"
    /\ ret # None /\ ret.val.ok
    /\ supabase_connected
    /\ supabase_client = "client"

\* The places of a call's tick queries that the terminal answered with a tick.
Ticked(calls) == {i \in 1..Len(calls) : ~IsNone(calls[i].out)}
\* The entry a tick makes in the prices dict.
TickEntry(tick) ==
    [bid |-> tick.bid, ask |-> tick.ask, last |-> tick.last, volume |-> tick.volume,
     time |-> tick.time]

(* C22: in Live mode, when no tick query raises, get_live_prices asks for the *)
(* tick of every requested symbol and the keys of its result are exactly the  *)
(* requested symbols for which the terminal returned a tick, each with the    *)
(* values of a tick returned for it; a symbol whose tick is missing is absent *)
(* from the result, it gets no demo quote.                                    *)
C22_LiveKeysAreTickedSymbols ==
    (op.name = "get_live_prices" /\ connected /\ MT5_AVAILABLE
        /\ ~SomeCallRaised(api_calls)) =>
        /\ ret.kind = "return"
        /\ shown = <<>>
        /\ Len(api_calls) = Len(op.symbols)
        /\ \A i \in 1..Len(api_calls) : api_calls[i].arg = PyStr(op.symbols[i])
        /\ DOMAIN ret.val = {op.symbols[i] : i \in Ticked(api_calls)}
        /\ \A symbol \in DOMAIN ret.val :
              /\ \E i \in Ticked(api_calls) :
                    /\ op.symbols[i] = symbol
                    /\ ret.val[symbol] = TickEntry(api_calls[i].out)
              /\ ~IsDemoQuote(symbol, ret.val[symbol])

\* Two symbols requested, a tick for the first and none for the second: the
\* result holds the first alone.
C22_Witness ==
    /\ op.name = "get_live_prices" /\ connected /\ MT5_AVAILABLE
    /\ Len(op.symbols) = 2 /\ op.symbols[1] # op.symbols[2]
    /\ Len(api_calls) = 2
    /\ api_calls[1].out \in TickSamples
    /\ IsNone(api_calls[2].out)
    /\ DOMAIN ret.val = {op.symbols[1]}

\* The snapshot of a session that has its initial figures.
InitialSnapshot == [total_value |-> E4(100000000), daily_pnl |-> Zero, total_trades |-> 0]
\* The figures a stored row or a request body carries.
Figures(row) ==
    [total_value |-> row.total_value, daily_pnl |-> row.daily_pnl,
     total_trades |-> row.total_trades]

(* C23: portfolio_value, total_trades and daily_pnl keep the values the        *)
(* session initialisation gave them (10000.0, 0, 0.0) in every state, so also  *)
(* after a successful order in Demo or Live mode; every snapshot the Save      *)
(* Portfolio button sends, and every row of portfolio_history, carries these   *)
(* initial values.                                                             *)
C23_PortfolioFiguresFixed ==
    /\ portfolio_value = E4(100000000)
    /\ total_trades = 0
    /\ daily_pnl = Zero
    /\ op.name = "Save Portfolio" =>
          /\ Len(http_calls) = 1
          /\ http_calls[1].request.path = [table |-> "portfolio_history"]
          /\ Figures(JsonLoads(http_calls[1].request.body)) = InitialSnapshot
    /\ \A i \in 1..Len(backend["portfolio_history"]) :
          Figures(backend["portfolio_history"][i]) = InitialSnapshot

\* An order the terminal executed, placed in a session that has saved a
\* snapshot: the count of trades is still 0.
C23_Witness ==
    /\ op.name = "Place Order"
    /\ api_calls # <<>>
    /\ ret.val.ok
    /\ Len(backend["portfolio_history"]) >= 1
    /\ total_trades = 0

=============================================================================
